---- MODULE Spec2Model ----
(***************************************************************************)
(* Model of optimistic_rollup.py: the driver script that submits one       *)
(* rollup block to the SimpleOptimisticRollup contract, challenges it and  *)
(* plays the bisection game, together with the contract side of the        *)
(* protocol (ledger, challenge game, arbitrator).                          *)
(*                                                                         *)
(* The driver is translated statement by statement from the script.  The   *)
(* contract (SimpleOptimisticRollup.sol) is compiled and called by the     *)
(* script but its source is not part of src/; its handlers are modelled    *)
(* from sections 4.3-4.5 of the specification.  The contract only records  *)
(* what it accepted or rejected: the script has no error handling and the  *)
(* model follows its statement order.                                      *)
(***************************************************************************)
EXTENDS Integers, Sequences, FiniteSets, TLC

\* ------------------------------------------------------------------ bounds

\* Longest block whose transactions are drawn freely from TxSet.
MaxLen == 3

\* Longest block made of one repeated transaction.
MaxLongLen == 8

\* Width of a state root in digits (bytes32 has 32) and the size of one
\* digit (a byte has 256), scaled down so that overflow is reachable.
RootLen == 5

ByteBase == 2

\* ------------------------------------------------------- program constants

deployer == "accounts[0]"

challenger == "accounts[1]"

block_number == 0

challenge_id == 1

RECURSIVE Pow(_, _)
Pow(b, e) == IF e = 0 THEN 1 ELSE b * Pow(b, e - 1)

\* Number of values a state root can encode (2^256 in the program).
Modulus == Pow(ByteBase, RootLen)

\* Operand values of the modelled transactions; 10, 2, 5 are those of the
\* script's block.
Operands == {0, 2, 5, 10}

\* tx_type strings: the two the VM knows and one it does not.
TxTypes == {"add", "multiply", "nop"}

Transaction(tx_type, value) == [tx_type |-> tx_type, value |-> value]

TxSet == {Transaction(t, v) : t \in TxTypes, v \in Operands}

\* The block of the script.
DemoBlock == <<Transaction("add", 10), Transaction("multiply", 2), Transaction("add", 5)>>

SeqsUpTo(S, n) == UNION {[1..k -> S] : k \in 0..n}

\* Blocks the model runs the script on.
Blocks ==
    SeqsUpTo(TxSet, MaxLen)
        \cup {[k \in 1..n |-> t] : n \in 1..MaxLongLen, t \in TxSet}

\* ----------------------------------------------------------- pure functions

serialize(tx) == <<tx.tx_type, tx.value>>

\* The second test written as a plain else: every other tag multiplies.
apply_transaction_else_multiply(state, transaction) ==
    IF transaction.tx_type = "add" THEN state + transaction.value
    ELSE state * transaction.value

\* The two operations exchanged.
apply_transaction_swapped(state, transaction) ==
    IF transaction.tx_type = "add" THEN state * transaction.value
    ELSE IF transaction.tx_type = "multiply" THEN state + transaction.value
    ELSE state

\* SimpleVM.apply_transaction on Python integers (unbounded).
apply_transaction(state, transaction) ==
    IF transaction.tx_type = "add" THEN state + transaction.value
    ELSE IF transaction.tx_type = "multiply" THEN state * transaction.value
    ELSE state

\* A fresh SimpleVM (state 0) after applying txs in order.
RECURSIVE RunVM(_)
RunVM(txs) ==
    IF txs = <<>> THEN 0
    ELSE apply_transaction(RunVM(SubSeq(txs, 1, Len(txs) - 1)), txs[Len(txs)])

\* int.to_bytes(32, 'big') raises OverflowError outside [0, 2^256).
CanEncode(value) == value >= 0 /\ value < Modulus

\* The digits in little-endian order (byteorder='little').
bytes32_little(value) ==
    [k \in 1..RootLen |-> (value \div Pow(ByteBase, k - 1)) % ByteBase]

\* bytes32: big-endian digits, most significant first, zero padded.
bytes32(value) ==
    [k \in 1..RootLen |-> (value \div Pow(ByteBase, RootLen - k)) % ByteBase]

RECURSIVE FromBytesUpTo(_, _)
FromBytesUpTo(b, n) ==
    IF n = 0 THEN 0 ELSE FromBytesUpTo(b, n - 1) * ByteBase + b[n]

RECURSIVE FromBytesDownTo(_, _)
FromBytesDownTo(b, n) ==
    IF n > Len(b) THEN 0 ELSE FromBytesDownTo(b, n + 1) * ByteBase + b[n]

\* The digits read in little-endian order (byteorder='little').
from_bytes_little(b) == FromBytesDownTo(b, 1)

\* int.from_bytes(b, byteorder='big')
from_bytes(b) == FromBytesUpTo(b, Len(b))

\* The slice taken one transaction too long.
Prefix_inclusive(txs, k) == SubSeq(txs, 1, IF k + 1 < Len(txs) THEN k + 1 ELSE Len(txs))

\* transactions[:k]
Prefix(txs, k) == SubSeq(txs, 1, IF k < Len(txs) THEN k ELSE Len(txs))

\* len(transactions) // 2
FirstMid(n) == n \div 2

\* Midpoint rounded up instead of down.
Midpoint_ceil(start, end) == (start + end + 1) \div 2

\* (current_start + current_end) // 2
Midpoint(start, end) == (start + end) \div 2

\* The half above mid selected instead of the half below it.
SelectedSegment_upper(start, m) == <<m, m + (m - start)>>

\* The two indices passed in the wrong order.
SelectedSegment_swapped(start, m) == <<m, start>>

\* The range the challenger passes to selectSegment: start to mid.
SelectedSegment(start, m) == <<start, m>>

\* The account bisectChallenge is sent from.
BisectSender == deployer

\* selectSegment sent from the submitter's account.
SelectSender_deployer == deployer

\* The account selectSegment is sent from.
SelectSender == challenger

\* ------------------------------------------------- contract (ledger, game)

NoRoot == <<>>

NoChallenge ==
    [status |-> "None", defender |-> "", challenger |-> "", blockIndex |-> 0,
     start |-> 0, end |-> 0, startRoot |-> NoRoot, endRoot |-> NoRoot,
     mid |-> 0, midRoot |-> NoRoot, verdict |-> "None", outcome |-> "None"]

\* decode(bytes) -> Transaction
decode(bytes) == Transaction(bytes[1], bytes[2])

\* apply(state, tx) of the state machine: arithmetic modulo 2^256.
apply(state, tx) ==
    IF tx.tx_type = "add" THEN (state + tx.value) % Modulus
    ELSE IF tx.tx_type = "multiply" THEN (state * tx.value) % Modulus
    ELSE state

\* The arbitrator returning the pre-state root without executing.
resolveSingleStep_noapply(transaction, preRoot) == preRoot

\* Arbitrator: decode preRoot, apply the transaction once, re-encode.
resolveSingleStep(transaction, preRoot) ==
    bytes32(apply(from_bytes(preRoot), transaction))

Verdict(transaction, preRoot, postRoot) ==
    IF resolveSingleStep(transaction, preRoot) = postRoot THEN "Match" ELSE "Mismatch"

\* submitBlock: append, never verified.
submitBlock(l, sender, txs, claimedRoot) ==
    Append(l, [transactions |-> txs, claimedRoot |-> claimedRoot,
               submitter |-> sender, status |-> "submitted"])

InitiateError(l, c, blockIndex) ==
    IF blockIndex + 1 > Len(l) THEN "NotFound"
    ELSE IF c.status \notin {"None", "Resolved"} THEN "AlreadyChallenged"
    ELSE ""

\* initiateChallenge: segment [0, len), roots (StateRoot(0), claimedRoot); an
\* empty block is settled at once without bisection.
initiateChallenge(l, c, sender, blockIndex) ==
    LET b == l[blockIndex + 1]
        n == Len(b.transactions)
        opened == [NoChallenge EXCEPT !.status = "Opened", !.defender = b.submitter,
                       !.challenger = sender, !.blockIndex = blockIndex,
                       !.start = 0, !.end = n,
                       !.startRoot = bytes32(0), !.endRoot = b.claimedRoot]
    IN  IF n = 0
        THEN [opened EXCEPT !.status = "Resolved",
                  !.outcome = IF b.claimedRoot = bytes32(0)
                              THEN "DefenderWins" ELSE "ChallengerWins"]
        ELSE opened

BisectError(c, sender, id, mid) ==
    IF id # challenge_id \/ c.status = "None" THEN "NotFound"
    ELSE IF sender # c.defender THEN "OutOfTurn"
    ELSE IF c.status \notin {"Opened", "SegmentSelected"} THEN "InvalidTransition"
    ELSE IF ~(c.start < mid /\ mid < c.end) THEN "InvalidMidpoint"
    ELSE ""

bisectChallenge(c, mid, midRoot) ==
    [c EXCEPT !.status = "Bisecting", !.mid = mid, !.midRoot = midRoot]

SelectError(c, sender, id, start, end) ==
    IF id # challenge_id \/ c.status = "None" THEN "NotFound"
    ELSE IF sender # c.challenger THEN "OutOfTurn"
    ELSE IF c.status # "Bisecting" THEN "InvalidTransition"
    ELSE IF <<start, end>> \notin {<<c.start, c.mid>>, <<c.mid, c.end>>} THEN "InvalidSegment"
    ELSE ""

selectSegment(c, start, end, roots) ==
    [c EXCEPT !.status = "SegmentSelected", !.start = start, !.end = end,
              !.startRoot = roots[1], !.endRoot = roots[2]]

\* The single-transaction terminal round is due.
Terminal(c) ==
    c.status \in {"Opened", "SegmentSelected"} /\ c.end - c.start = 1

\* ------------------------------------------------------------------- state

VARIABLES
    transactions,        \* the block
    tampered,            \* whether the submitted root is off by one
    pc,                  \* position of the script
    i,                   \* transactions applied by the loop at line 79
    vm,                  \* vm.state
    state_root,
    mid_index,
    mid,
    vm_defender,         \* vm_defender.state
    mid_state_root,
    current_start,
    current_end,
    current_start_state,
    current_end_state,
    calls,               \* contract calls sent, in order
    ledger,              \* contract: committed blocks
    challenge,           \* contract: the challenge
    errors               \* contract: rejected calls, in order

driver == <<pc, i, vm, state_root, mid_index, mid, vm_defender, mid_state_root,
            current_start, current_end, current_start_state, current_end_state>>

contract == <<ledger, challenge, errors>>

vars == <<transactions, tampered, driver, calls, contract>>

Call(fn, sender, args) == [fn |-> fn, sender |-> sender, args |-> args]

Init ==
    /\ transactions \in Blocks
    /\ tampered \in BOOLEAN
    /\ pc = "compute"
    /\ i = 0
    /\ vm = 0
    /\ state_root = NoRoot
    /\ mid_index = 0
    /\ mid = 0
    /\ vm_defender = 0
    /\ mid_state_root = NoRoot
    /\ current_start = 0
    /\ current_end = Len(transactions)
    /\ current_start_state = 0
    /\ current_end_state = 0
    /\ calls = <<>>
    /\ ledger = <<>>
    /\ challenge = NoChallenge
    /\ errors = <<>>

\* ----------------------------------------------------- contract dispatching

\* The contract's reaction to bisectChallenge(id, m, root) sent by sender.
ContractBisect(sender, id, m, root) ==
    LET e == BisectError(challenge, sender, id, m)
    IN  /\ challenge' = IF e = "" THEN bisectChallenge(challenge, m, root) ELSE challenge
        /\ errors' = IF e = "" THEN errors ELSE Append(errors, e)
        /\ UNCHANGED ledger

\* The contract's reaction to selectSegment(id, s, e, roots) sent by sender.
ContractSelect(sender, id, start, end, roots) ==
    LET e == SelectError(challenge, sender, id, start, end)
    IN  /\ challenge' = IF e = "" THEN selectSegment(challenge, start, end, roots)
                        ELSE challenge
        /\ errors' = IF e = "" THEN errors ELSE Append(errors, e)
        /\ UNCHANGED ledger

\* ------------------------------------------------------------------ script

\* for tx in transactions: vm.apply_transaction(tx)     (one iteration)
ApplyNext ==
    /\ pc = "compute"
    /\ i < Len(transactions)
    /\ vm' = apply_transaction(vm, transactions[i + 1])
    /\ i' = i + 1
    /\ UNCHANGED <<transactions, tampered, pc, state_root, mid_index, mid, vm_defender,
                   mid_state_root, current_start, current_end, current_start_state,
                   current_end_state, calls, contract>>

\* state_root = bytes32(vm.state)
ComputeStateRoot ==
    /\ pc = "compute"
    /\ i = Len(transactions)
    /\ IF CanEncode(vm)
       THEN /\ state_root' = bytes32(vm)
            /\ pc' = "submit"
       ELSE /\ pc' = "OverflowError"
            /\ UNCHANGED state_root
    /\ UNCHANGED <<transactions, tampered, i, vm, mid_index, mid, vm_defender,
                   mid_state_root, current_start, current_end, current_start_state,
                   current_end_state, calls, contract>>

\* The root sent with the block: state_root, or the root one below it when
\* the submitter tampers.
ClaimedRoot ==
    IF tampered THEN bytes32((from_bytes(state_root) + Modulus - 1) % Modulus)
    ELSE state_root

\* submitRollupBlock(serialized_transactions, state_root) from deployer
SubmitRollupBlock ==
    /\ pc = "submit"
    /\ LET serialized_transactions == [k \in 1..Len(transactions) |-> serialize(transactions[k])]
       IN  /\ calls' = Append(calls, Call("submitRollupBlock", deployer,
                                          <<serialized_transactions, ClaimedRoot>>))
           /\ ledger' = submitBlock(ledger, deployer, serialized_transactions, ClaimedRoot)
    /\ pc' = "challenge"
    /\ UNCHANGED <<transactions, tampered, i, vm, state_root, mid_index, mid, vm_defender,
                   mid_state_root, current_start, current_end, current_start_state,
                   current_end_state, challenge, errors>>

\* initiateChallenge(block_number) from challenger
InitiateChallenge ==
    /\ pc = "challenge"
    /\ calls' = Append(calls, Call("initiateChallenge", challenger, <<block_number>>))
    /\ LET e == InitiateError(ledger, challenge, block_number)
       IN  /\ challenge' = IF e = ""
                           THEN initiateChallenge(ledger, challenge, challenger, block_number)
                           ELSE challenge
           /\ errors' = IF e = "" THEN errors ELSE Append(errors, e)
    /\ pc' = "bisect"
    /\ UNCHANGED <<transactions, tampered, i, vm, state_root, mid_index, mid, vm_defender,
                   mid_state_root, current_start, current_end, current_start_state,
                   current_end_state, ledger>>

\* mid_index = len(transactions) // 2; the defender's VM over
\* transactions[:mid_index]; bisectChallenge(challenge_id, mid_index,
\* mid_state_root) from deployer
FirstBisect ==
    /\ pc = "bisect"
    /\ mid_index' = FirstMid(Len(transactions))
    /\ vm_defender' = RunVM(Prefix(transactions, mid_index'))
    /\ IF CanEncode(vm_defender')
       THEN /\ mid_state_root' = bytes32(vm_defender')
            /\ calls' = Append(calls, Call("bisectChallenge", BisectSender,
                                           <<challenge_id, mid_index', mid_state_root'>>))
            /\ ContractBisect(BisectSender, challenge_id, mid_index', mid_state_root')
            /\ pc' = "select"
       ELSE /\ pc' = "OverflowError"
            /\ UNCHANGED <<mid_state_root, calls, contract>>
    /\ UNCHANGED <<transactions, tampered, i, vm, state_root, mid, current_start,
                   current_end, current_start_state, current_end_state>>

\* selectSegment(challenge_id, 0, mid_index, [start_state_root,
\* mid_state_root]) from challenger, then current_start .. current_end_state
FirstSelect ==
    /\ pc = "select"
    /\ LET start_state_root == bytes32(0)
           seg == SelectedSegment(0, mid_index)
       IN  /\ calls' = Append(calls, Call("selectSegment", SelectSender,
                                  <<challenge_id, seg[1], seg[2],
                                    <<start_state_root, mid_state_root>>>>))
           /\ ContractSelect(SelectSender, challenge_id, seg[1], seg[2],
                             <<start_state_root, mid_state_root>>)
    /\ current_start' = 0
    /\ current_end' = mid_index
    /\ current_start_state' = 0
    /\ current_end_state' = vm_defender
    /\ pc' = "while"
    /\ UNCHANGED <<transactions, tampered, i, vm, state_root, mid_index, mid, vm_defender,
                   mid_state_root>>

\* while current_end - current_start > 1: mid, the defender's VM over
\* transactions[:mid], bisectChallenge(challenge_id, mid, mid_state_root)
LoopBisect ==
    /\ pc = "while"
    /\ current_end - current_start > 1
    /\ mid' = Midpoint(current_start, current_end)
    /\ vm_defender' = RunVM(Prefix(transactions, mid'))
    /\ IF CanEncode(vm_defender')
       THEN /\ mid_state_root' = bytes32(vm_defender')
            /\ calls' = Append(calls, Call("bisectChallenge", BisectSender,
                                           <<challenge_id, mid', mid_state_root'>>))
            /\ ContractBisect(BisectSender, challenge_id, mid', mid_state_root')
            /\ pc' = "loop_select"
       ELSE /\ pc' = "OverflowError"
            /\ UNCHANGED <<mid_state_root, calls, contract>>
    /\ UNCHANGED <<transactions, tampered, i, vm, state_root, mid_index, current_start,
                   current_end, current_start_state, current_end_state>>

\* selectSegment(challenge_id, current_start, mid, [bytes32(current_start_state),
\* mid_state_root]) from challenger; current_end = mid; current_end_state
LoopSelect ==
    /\ pc = "loop_select"
    /\ LET seg == SelectedSegment(current_start, mid)
       IN  /\ calls' = Append(calls, Call("selectSegment", SelectSender,
                                  <<challenge_id, seg[1], seg[2],
                                    <<bytes32(current_start_state), mid_state_root>>>>))
           /\ ContractSelect(SelectSender, challenge_id, seg[1], seg[2],
                             <<bytes32(current_start_state), mid_state_root>>)
    /\ current_end' = mid
    /\ current_end_state' = from_bytes(mid_state_root)
    /\ pc' = "while"
    /\ UNCHANGED <<transactions, tampered, i, vm, state_root, mid_index, mid, vm_defender,
                   mid_state_root, current_start, current_start_state>>

\* The loop condition fails: "Dispute resolution should occur now."
LoopExit ==
    /\ pc = "while"
    /\ ~(current_end - current_start > 1)
    /\ pc' = "done"
    /\ UNCHANGED <<transactions, tampered, i, vm, state_root, mid_index, mid, vm_defender,
                   mid_state_root, current_start, current_end, current_start_state,
                   current_end_state, calls, contract>>

\* Contract: the single-transaction terminal round.  The arbitrator re-executes
\* the transaction at index start; the verdict resolves the challenge and
\* finalizes or reverts the block.
ResolveDispute ==
    /\ Terminal(challenge)
    /\ LET b == ledger[challenge.blockIndex + 1]
           v == Verdict(decode(b.transactions[challenge.start + 1]),
                        challenge.startRoot, challenge.endRoot)
       IN  /\ challenge' = [challenge EXCEPT !.status = "Resolved", !.verdict = v,
                               !.outcome = IF v = "Match" THEN "DefenderWins"
                                           ELSE "ChallengerWins"]
           /\ ledger' = [ledger EXCEPT ![challenge.blockIndex + 1].status =
                               IF v = "Match" THEN "finalized" ELSE "reverted"]
    /\ UNCHANGED <<transactions, tampered, driver, calls, errors>>

Next ==
    \/ ApplyNext
    \/ ComputeStateRoot
    \/ SubmitRollupBlock
    \/ InitiateChallenge
    \/ FirstBisect
    \/ FirstSelect
    \/ LoopBisect
    \/ LoopSelect
    \/ LoopExit
    \/ ResolveDispute

Spec == Init /\ [][Next]_vars

\* The script runs to its end and the contract executes what it is sent.
FairSpec == Spec /\ WF_vars(Next)

TypeOK ==
    /\ pc \in {"compute", "submit", "challenge", "bisect", "select", "while",
               "loop_select", "done", "OverflowError"}
    /\ i \in 0..Len(transactions)
    /\ current_start \in Nat /\ current_end \in Nat

\* ------------------------------------------------------------------ claims

Last(s) == s[Len(s)]

N == Len(transactions)

RECURSIVE FloorLog2(_)
FloorLog2(n) == IF n <= 1 THEN 0 ELSE 1 + FloorLog2(n \div 2)

RECURSIVE CeilLog2(_)
CeilLog2(n) == IF n <= 1 THEN 0 ELSE 1 + CeilLog2((n + 1) \div 2)

\* Number of bisectChallenge/selectSegment round pairs completed.
RoundPairs == Cardinality({k \in DOMAIN calls : calls[k].fn = "selectSegment"})

Bisections == Cardinality({k \in DOMAIN calls : calls[k].fn = "bisectChallenge"})

C2_NarrowsToIndex2 ==
    (/\ transactions = DemoBlock
     /\ pc = "done"
     /\ from_bytes(ledger[1].claimedRoot) = 24) =>
        <<current_start, current_end>> = <<2, 3>>

\* C3: for [Add(10), Multiply(2), Add(5)] submitted with the honest root 25 and
\* challenged, the challenge eventually is Resolved with outcome DefenderWins.
C3_HonestDefenderWins ==
    (transactions = DemoBlock /\ ~tampered) =>
        <>[](challenge.status = "Resolved" /\ challenge.outcome = "DefenderWins")

\* The honest block, root 25 on the ledger, resolved for the defender and
\* finalized.
C3_Witness ==
    /\ transactions = DemoBlock
    /\ Len(ledger) = 1
    /\ from_bytes(ledger[1].claimedRoot) = 25
    /\ ledger[1].status = "finalized"
    /\ challenge.status = "Resolved"
    /\ challenge.outcome = "DefenderWins"

\* C4: once the segment is one transaction, the arbitration re-executes that
\* transaction once on the pre-state root and its verdict is Match if and only
\* if the disputed post-state root is the encoding of the state the transaction
\* yields from the pre-state, modulo the root width.
C4_ArbitrationCorrect ==
    challenge.verdict # "None" =>
        LET tx == transactions[challenge.start + 1]
            pre == from_bytes(challenge.startRoot)
            post == IF tx.tx_type = "add" THEN (pre + tx.value) % Modulus
                    ELSE IF tx.tx_type = "multiply" THEN (pre * tx.value) % Modulus
                    ELSE pre
        IN  /\ challenge.end - challenge.start = 1
            /\ (challenge.verdict = "Match") <=> (from_bytes(challenge.endRoot) = post)
            /\ challenge.verdict \in {"Match", "Mismatch"}

\* An arbitration of Add(10) on pre-state 0 against the disputed root 10.
C4_Witness ==
    /\ challenge.verdict = "Match"
    /\ transactions[challenge.start + 1] = Transaction("add", 10)
    /\ from_bytes(challenge.startRoot) = 0
    /\ from_bytes(challenge.endRoot) = 10

\* C5: after initiateChallenge the calls strictly alternate: the first is a
\* bisectChallenge from the account that submitted the block, each
\* bisectChallenge is followed by a selectSegment from the account that
\* initiated the challenge, and no two calls of one kind are consecutive.
C5_StrictAlternation ==
    /\ \A k \in 3..Len(calls) :
          IF k % 2 = 1
          THEN calls[k].fn = "bisectChallenge" /\ calls[k].sender = calls[1].sender
          ELSE calls[k].fn = "selectSegment" /\ calls[k].sender = calls[2].sender
    /\ (Len(calls) >= 3 /\ Last(calls).fn = "bisectChallenge") =>
          (pc \in {"select", "loop_select"} /\ (ENABLED FirstSelect \/ ENABLED LoopSelect))
    /\ Len(calls) >= 1 => calls[1].fn = "submitRollupBlock"
    /\ Len(calls) >= 2 => calls[2].fn = "initiateChallenge"

\* Two full bisect/select rounds have been sent.
C5_Witness ==
    /\ Len(calls) = 6
    /\ calls[3].fn = "bisectChallenge" /\ calls[4].fn = "selectSegment"
    /\ calls[5].fn = "bisectChallenge" /\ calls[6].fn = "selectSegment"
    /\ calls[5].sender = deployer /\ calls[6].sender = challenger

\* C6 as stated (for non-empty blocks): every midpoint passed to
\* bisectChallenge lies strictly between the start and the end of the current
\* segment, which is [0, N) at the first bisection and the last selected
\* segment afterwards; no bisection is issued on a segment of length <= 1.
C6_MidStrictlyInside ==
    [][(N >= 1 /\ Len(calls') > Len(calls) /\ Last(calls').fn = "bisectChallenge") =>
          /\ current_start < Last(calls').args[2]
          /\ Last(calls').args[2] < current_end
          /\ current_end - current_start > 1]_vars

\* C7 as stated (for non-empty blocks): in every state after initiateChallenge
\* the current segment satisfies 0 <= start < end <= len(transactions).
C7_SegmentInvariant ==
    (N >= 1 /\ Len(calls) >= 2) =>
        (0 <= current_start /\ current_start < current_end /\ current_end <= N)

\* C8: every range passed to selectSegment is one of the two halves
\* [start, mid) or [mid, end) of the segment that was current when the
\* preceding bisectChallenge proposed mid, and it becomes the current segment.
C8_SelectsAHalf ==
    [][(Len(calls') > Len(calls) /\ Last(calls').fn = "selectSegment") =>
          LET sel == Last(calls').args
              bis == Last(calls)
          IN  /\ bis.fn = "bisectChallenge"
              /\ \/ <<sel[2], sel[3]>> = <<current_start, bis.args[2]>>
                 \/ <<sel[2], sel[3]>> = <<bis.args[2], current_end>>
              /\ <<current_start', current_end'>> = <<sel[2], sel[3]>>]_vars

\* A selectSegment of the second round: the half [0, 2) of [0, 4).
C8_Witness ==
    /\ Len(calls) = 6
    /\ Last(calls).fn = "selectSegment"
    /\ calls[5].args[2] = 2
    /\ <<Last(calls).args[2], Last(calls).args[3]>> = <<0, 2>>
    /\ <<current_start, current_end>> = <<0, 2>>

\* The state after transactions[0 .. k) applied from state 0 with the state
\* machine's arithmetic (modulo the root width).
RECURSIVE HonestState(_)
HonestState(k) ==
    IF k = 0 THEN 0 ELSE apply(HonestState(k - 1), transactions[k])

\* C9: at every bisectChallenge call the midRoot is the state root of
\* transactions[0 .. mid) applied in order to a fresh VM, and the following
\* selectSegment supplies the same root as its end boundary root.
C9_HonestMidRoot ==
    \A k \in DOMAIN calls :
        calls[k].fn = "bisectChallenge" =>
            /\ calls[k].args[2] \in 0..N
            /\ calls[k].args[3] = bytes32(HonestState(calls[k].args[2]))
            /\ k < Len(calls) =>
                  /\ calls[k + 1].fn = "selectSegment"
                  /\ calls[k + 1].args[4][2] = calls[k].args[3]

\* A bisection at mid >= 2 with a non-zero root, answered by a selectSegment.
C9_Witness ==
    \E k \in DOMAIN calls :
        /\ calls[k].fn = "bisectChallenge"
        /\ calls[k].args[2] >= 2
        /\ from_bytes(calls[k].args[3]) > 0
        /\ k < Len(calls)
        /\ calls[k + 1].args[4][2] = calls[k].args[3]

\* C10 as stated: from a state s in [0, 2^256), apply_transaction yields
\* (s + v) mod 2^256 for Add and (s * v) mod 2^256 for Multiply, so the VM
\* state stays in [0, 2^256).
C10_ModularArithmetic ==
    [][(i' = i + 1 /\ vm \in 0..(Modulus - 1)) =>
          LET tx == transactions[i + 1]
          IN  /\ tx.tx_type = "add" => vm' = (vm + tx.value) % Modulus
              /\ tx.tx_type = "multiply" => vm' = (vm * tx.value) % Modulus
              /\ vm' \in 0..(Modulus - 1)]_vars

WellFormed(tx) == tx.tx_type \in {"add", "multiply"} /\ tx.value \in 0..(Modulus - 1)

\* C11 as stated: for every sequence of well-formed Add/Multiply transactions
\* with operands in [0, 2^256), applying the sequence and computing the state
\* root never ends in an error; overflow wraps around.
C11_NeverFails ==
    (\A k \in 1..N : WellFormed(transactions[k])) => pc # "OverflowError"

\* C12: without tampering, the root submitted with the block is the root of
\* all transactions applied in order from state 0, most significant digit
\* first; for [Add(10), Multiply(2), Add(5)] the states are 0, 10, 20, 25 and
\* the submitted root encodes 25.
C12_SubmittedRoot ==
    /\ (~tampered /\ Len(calls) >= 1) =>
          LET root == calls[1].args[2]
          IN  /\ Len(root) = RootLen
              /\ from_bytes(root) = HonestState(N)
              /\ root[RootLen] = HonestState(N) % ByteBase
              /\ root[1] = HonestState(N) \div Pow(ByteBase, RootLen - 1)
              /\ ledger[1].claimedRoot = root
              /\ transactions = DemoBlock => from_bytes(root) = 25
    /\ (transactions = DemoBlock /\ pc = "compute") => vm = <<0, 10, 20, 25>>[i + 1]

\* The script's block submitted with the root of 25.
C12_Witness ==
    /\ transactions = DemoBlock
    /\ ~tampered
    /\ Len(calls) >= 1
    /\ calls[1].fn = "submitRollupBlock"
    /\ from_bytes(calls[1].args[2]) = 25
    /\ vm = 25

\* C13 as stated: for a block with zero transactions no bisectChallenge call
\* is ever issued after initiateChallenge and the challenge never enters the
\* Bisecting state.
C13_NoBisectionOfEmptyBlock ==
    N = 0 => (Bisections = 0 /\ challenge.status # "Bisecting")

\* C14 as stated: serializing a transaction whose tag is neither add nor
\* multiply fails with InvalidKind, so no transaction with an unrecognized tag
\* is placed in a submitted block.
C14_InvalidKindRejected ==
    /\ \A c \in DOMAIN calls :
          calls[c].fn = "submitRollupBlock" =>
              \A k \in DOMAIN calls[c].args[1] :
                  calls[c].args[1][k][1] \in {"add", "multiply"}
    /\ \A b \in DOMAIN ledger :
          \A k \in DOMAIN ledger[b].transactions :
              ledger[b].transactions[k][1] \in {"add", "multiply"}

\* C16 as stated (its safety half): for every block length N >= 1, where the
\* script declares that dispute resolution should occur the current segment
\* has length exactly 1.
C16_TerminalLengthOne ==
    (N >= 1 /\ pc = "done") => current_end - current_start = 1

\* C17: after the first selectSegment and at the head and the end of every
\* loop iteration, current_end_state is the VM state after
\* transactions[0 .. current_end) applied from state 0, and it survives the
\* round trip through the root encoding.
C17_EndStateTracksEnd ==
    pc \in {"while", "loop_select", "done"} =>
        /\ current_end \in 0..N
        /\ current_end_state = HonestState(current_end)
        /\ from_bytes(bytes32(current_end_state)) = current_end_state
        /\ current_end_state \in 0..(Modulus - 1)

\* A loop iteration has ended on a non-zero state read back from its root.
C17_Witness ==
    /\ pc = "while"
    /\ Len(calls) >= 6
    /\ Last(calls).fn = "selectSegment"
    /\ current_end_state > 1
    /\ current_end_state = from_bytes(mid_state_root)

\* C18: the challenger only ever selects the left half: current_start is 0 in
\* every state, every selectSegment passes start 0 with the root of state 0
\* as its start boundary root, and a terminal single-transaction segment is
\* [0, 1) whatever the block and the claimed root are (every block of at
\* least two transactions ends on it).
C18_AlwaysLeftHalf ==
    /\ current_start = 0
    /\ current_start_state = 0
    /\ \A k \in DOMAIN calls :
          calls[k].fn = "selectSegment" =>
              /\ calls[k].args[2] = 0
              /\ calls[k].args[3] = calls[k - 1].args[2]
              /\ from_bytes(calls[k].args[4][1]) = 0
              /\ Len(calls[k].args[4][1]) = RootLen
    /\ (pc = "done" /\ current_end - current_start = 1) =>
          <<current_start, current_end>> = <<0, 1>>
    /\ (pc = "done" /\ N >= 2) => <<current_start, current_end>> = <<0, 1>>

\* The tampered script block ended on the segment [0, 1).
C18_Witness ==
    /\ pc = "done"
    /\ tampered
    /\ N = 3
    /\ RoundPairs = 1
    /\ <<current_start, current_end>> = <<0, 1>>

Known(tx) == tx.tx_type \in {"add", "multiply"}

\* C19: applying a transaction whose tx_type is neither 'add' nor 'multiply'
\* leaves the VM state unchanged and raises no error, so it is a silent no-op
\* in every computed state root.
C19_UnknownTagIsNoOp ==
    /\ vm = RunVM(SelectSeq(SubSeq(transactions, 1, i), Known))
    /\ (pc = "submit") =>
          from_bytes(state_root) = RunVM(SelectSeq(transactions, Known))
    /\ (pc \in {"select", "loop_select"}) =>
          from_bytes(mid_state_root) =
              RunVM(SelectSeq(Prefix(transactions, Last(calls).args[2]), Known))
    /\ pc = "compute" => ENABLED (ApplyNext \/ ComputeStateRoot)

\* A transaction with another tag was applied to a non-zero state.
C19_Witness ==
    /\ i = 2
    /\ transactions[1] = Transaction("add", 10)
    /\ transactions[2] = Transaction("nop", 5)
    /\ vm = 10

====
